---- MODULE Spec2Model ----
\* Model of eco_env / ray_eco_env (src/src/base_env.py): the reset/step state
\* machine of a harvested multi-species population.
\*
\* Numbers.  Reals are fixed-point integers, ONE units per 1.0 (0.5 is 50).
\* Rewards are kept in units of 1/(1000*ONE) so that the utility function of
\* src/src/script_example.py is exact.  The inputs (initial populations, noise
\* draws, actions, dynamics outputs) are drawn from grids on which every
\* product and quotient the code computes is exact, so the arithmetic below
\* is the code's arithmetic over the reals; floating-point rounding is not
\* modelled.
\*
\* Indices.  Vectors are sequences indexed from 1: species i of the code
\* (0-based) is position i+1 here, and ctrl_species holds 1-based positions.
EXTENDS Integers, Sequences, FiniteSets, TLC

\* ------------------------------------------------------------------ bounds
\* Episode horizon (metadata tmax; TMAX = 800 in src/src/script_example.py).
TMAX == 2

\* Steps are taken while timestep <= MaxT: up to and past the horizon.
MaxT == TMAX + 1

\* ------------------------------------------------------------ fixed point
ONE == 100

RewardOne == 1000 * ONE

Min(a, b) == IF a < b THEN a ELSE b

Max(a, b) == IF a > b THEN a ELSE b

RECURSIVE Sum(_)
Sum(s) == IF s = << >> THEN 0 ELSE Head(s) + Sum(Tail(s))

\* x * y of two fixed-point numbers.
Mul(x, y) == (x * y) \div ONE

\* --------------------------------------------------------------- metadata
\* The metadata records the environment is constructed with.  Shapes follow
\* the examples: one species under control; three species with the first two
\* under control; three species with the last two under control.
Cfg1 ==
  [n_sp |-> 1, n_act |-> 1, ctrl_species |-> <<1>>,
   init_pop |-> <<50>>, tmax |-> TMAX, extinct_thresh |-> 5, var_bound |-> 200]

Cfg2 ==
  [n_sp |-> 3, n_act |-> 2, ctrl_species |-> <<1, 2>>,
   init_pop |-> <<50, 50, 10>>, tmax |-> TMAX, extinct_thresh |-> 5,
   var_bound |-> 200]

Cfg3 ==
  [n_sp |-> 3, n_act |-> 2, ctrl_species |-> <<2, 3>>,
   init_pop |-> <<50, 50, 20>>, tmax |-> TMAX, extinct_thresh |-> 30,
   var_bound |-> 400]

\* reset_sigma: no noise, or 0.1.
Sigmas == {0, 10}

Metadata ==
  { [n_sp |-> c.n_sp, n_act |-> c.n_act, ctrl_species |-> c.ctrl_species,
     init_pop |-> c.init_pop, reset_sigma |-> s, tmax |-> c.tmax,
     extinct_thresh |-> c.extinct_thresh, var_bound |-> c.var_bound]
    : c \in {Cfg1, Cfg2, Cfg3}, s \in Sigmas }

\* ----------------------------------------------------------------- inputs
\* Seeds a caller passes to reset.
Seeds == {42, 7}

\* np.random's global generator: a deterministic stream of standard normal
\* draws, read at a position that every draw advances.  The process is
\* started unseeded, so the initial position is arbitrary.
NormalTable == <<0, 100, -100, -200, 200>>

RngStates == 0 .. (Len(NormalTable) - 1)

\* Actions passed to step: every length from 0 to 3, values inside and
\* outside [-1, 1].
Actions ==
  { << >>, <<-60>>, <<140>>, <<0, -60>>, <<-120, 100>>, <<0, 0, 0>> }

\* Outputs of the user-supplied dynamics function, of length n_sp: inside the
\* bounds, extinct, negative, and above var_bound.
DynOutputs(md) ==
  IF md.n_sp = 1
  THEN { <<50>>, <<0>>, <<-10>>, <<20>>, <<md.var_bound + 50>> }
  ELSE { <<50, 50, 10>>, <<0, 50, 10>>, <<-10, md.var_bound + 50, 10>>,
         <<md.var_bound + 50, 50, 40>>, <<20, 40, 40>> }

\* ------------------------------------------------------- pure functions
\* x / y of two fixed-point numbers.
Div(x, y) == (x * ONE) \div y

\* np.clip on one component.
clip1(x, lo, hi) == Min(Max(x, lo), hi)

\* np.clip(v, n*[lo], n*[hi]) for a vector of length n.
np_clip(v, lo, hi) == [i \in 1 .. Len(v) |-> clip1(v[i], lo, hi)]

broadcastable_any(len, n) == TRUE

\* numpy's broadcasting rule for np.clip(action, n_act*[-1], n_act*[1]): the
\* lengths must agree or one of them must be 1; otherwise ValueError.
broadcastable(len, n) == len = n \/ len = 1 \/ n = 1

\* Length of the broadcast result.
broadcast_len(len, n) == IF len = 1 THEN n ELSE len

\* eco_env.step, "regularize actions": the action clamped to [-1, 1], a
\* length-1 action being repeated over the n_act bounds.
clip_action(action, n) ==
  [i \in 1 .. broadcast_len(Len(action), n) |->
     clip1(action[IF Len(action) = 1 THEN 1 ELSE i], -ONE, ONE)]

\* Default act_to_eff_filter: (act + 1) / 2.
act_to_eff_filter(act) == (act + ONE) \div 2

action_to_effort(action) ==
  [i \in 1 .. Len(action) |-> act_to_eff_filter(action[i])]

\* utility_fn of script_example.py: 0.5 * pop[0] - 0.001 * sum(effort), in
\* reward units.
utility_fn(effort, pop) == 500 * pop[1] - Sum(effort)

\* penalty_fn of script_example.py: -5 * TMAX / (t + 1), in reward units.
penalty_fn(t) == 0 - ((5 * TMAX * RewardOne) \div (t + 1))

\* pop_to_state: 2 * pop / var_bound - 1.
pop_to_state(md, pop) ==
  [i \in 1 .. Len(pop) |-> Div(2 * pop[i], md.var_bound) - ONE]

\* state_to_pop: (state + 1) * (var_bound / 2).
state_to_pop(md, state) ==
  [i \in 1 .. Len(state) |-> Mul(state[i] + ONE, md.var_bound \div 2)]

\* dict(zip(ctrl_species, effort)): the position in effort of species i, or 0
\* when zip ran out of efforts before reaching i (no key i).
effort_key(md, effort, i) ==
  IF \E k \in 1 .. Min(md.n_act, Len(effort)) : md.ctrl_species[k] = i
  THEN CHOOSE k \in 1 .. Min(md.n_act, Len(effort)) : md.ctrl_species[k] = i
  ELSE 0

is_ctrl(md, i) == \E k \in 1 .. md.n_act : md.ctrl_species[k] = i

\* perform_action raises KeyError when a controlled species has no effort.
perform_action_ok(md, effort) ==
  \A k \in 1 .. md.n_act : effort_key(md, effort, md.ctrl_species[k]) # 0

\* effects[i] = pop[i] * effort_dict[i].
effect(md, pop, effort, i) == Mul(pop[i], effort[effort_key(md, effort, i)])

perform_action_unclamped(md, pop, effort) ==
  [i \in 1 .. md.n_sp |->
     IF is_ctrl(md, i) THEN pop[i] - effect(md, pop, effort, i) ELSE pop[i]]

\* perform_action: the harvested population, clamped to [0, var_bound].
perform_action(md, pop, effort) ==
  np_clip(
    [i \in 1 .. md.n_sp |->
       IF is_ctrl(md, i) THEN pop[i] - effect(md, pop, effort, i) ELSE pop[i]],
    0, md.var_bound)

early_end_extinct_only(md, pop, t) ==
  \E i \in 1 .. Len(pop) : pop[i] < md.extinct_thresh

early_end_late(md, pop, t) ==
  (\E i \in 1 .. Len(pop) : pop[i] < md.extinct_thresh) \/ t > md.tmax

\* "check for early end".
early_end(md, pop, t) ==
  (\E i \in 1 .. Len(pop) : pop[i] < md.extinct_thresh) \/ t >= md.tmax

step_reward_always(md, effort, pop, t, terminated) ==
  utility_fn(effort, pop) + penalty_fn(t)

\* reward of the step: the utility of the pre-harvest population, plus the
\* penalty when the step ends the episode.
step_reward(md, effort, pop, t, terminated) ==
  utility_fn(effort, pop) + (IF terminated THEN penalty_fn(t) ELSE 0)

state_warns_magnitude(state) ==
  \E i \in 1 .. Len(state) : state[i] > ONE \/ state[i] < -ONE

\* "cap off state": the condition of the warning.
state_warns(state) == \E i \in 1 .. Len(state) : state[i] > ONE

cap_state_upper(state) == [i \in 1 .. Len(state) |-> Min(state[i], ONE)]

\* np.clip(self.state, n_sp*[-1], n_sp*[1]).
cap_state(state) == np_clip(state, -ONE, ONE)

resync_pop_skipped(md, state, pop) == pop

\* self.pop = self.state_to_pop(self.state) after the cap.
resync_pop(md, state, pop) == state_to_pop(md, state)

next_timestep_stuck(t) == t

\* self.timestep += 1.
next_timestep(t) == t + 1

\* np.random.normal(size=n) read at generator position r.
normal(r, n) ==
  [i \in 1 .. n |-> NormalTable[((r + i - 1) % Len(NormalTable)) + 1]]

rng_advance(r, n) == (r + n) % Len(NormalTable)

\* The generator position reset draws from.  The seed argument is not used.
reset_rng(r, seed) == r

\* self.pop of reset: init_pop + reset_sigma * normal(size=n_sp).
reset_pop(md, r) ==
  [i \in 1 .. md.n_sp |->
     md.init_pop[i] + Mul(md.reset_sigma, normal(r, md.n_sp)[i])]

\* ------------------------------------------------- dynamics parameters
\* Dynamics parameters are fixed-point numbers with ParamOne units per 1.0.
ParamOne == 10 * ONE

\* _r of ex_script.py: 1 + t/1000.
_r(t) == ParamOne + (t * ParamOne) \div 1000

\* _rx of ex_script.py: 1 + t/1000.
_rx(t) == ParamOne + (t * ParamOne) \div 1000

\* A function of non_stationarities, named by fn, called at time t.
call_fn(fn, t) == IF fn = "_r" THEN _r(t) ELSE _rx(t)

\* What the environment hands to dynamical_system: env_2 (constant r and K),
\* env_3 (r overridden by _r), env_4 (rx overridden by _rx) of ex_script.py
\* and the parameterless dyn_fn of script_example.py.
DynEnv2 ==
  [dyn_params |-> [r |-> 2 * ParamOne, K |-> ParamOne],
   non_stationary |-> FALSE, non_stationarities |-> << >>]

DynEnv3 ==
  [dyn_params |-> [r |-> 2 * ParamOne, K |-> ParamOne],
   non_stationary |-> TRUE, non_stationarities |-> [r |-> "_r"]]

DynEnv4 ==
  [dyn_params |-> [rx |-> ParamOne, ry |-> 2 * ParamOne,
                   rz |-> ParamOne \div 10],
   non_stationary |-> TRUE, non_stationarities |-> [rx |-> "_rx"]]

DynScript ==
  [dyn_params |-> << >>, non_stationary |-> FALSE,
   non_stationarities |-> << >>]

\* The dynamics an environment of metadata md is built with.
DynConfigs(md) ==
  IF md.n_sp = 1 THEN {DynEnv2, DynEnv3}
  ELSE IF md.ctrl_species = <<1, 2>> THEN {DynEnv4}
  ELSE {DynScript}

\* Parameter Evolver: the parameters in force at time t.  Every name keeps its
\* constant unless the system is non-stationary and the name has a function
\* in non_stationarities, which is then called at t.
resolve_params(dyn, t) ==
  [name \in DOMAIN dyn.dyn_params |->
     IF dyn.non_stationary /\ name \in DOMAIN dyn.non_stationarities
     THEN call_fn(dyn.non_stationarities[name], t)
     ELSE dyn.dyn_params[name]]

dyn_time_after(t) == t + 1

\* The t keyword of the dyn_fn call: self.timestep, not yet incremented.
dyn_time(t) == t

\* The arguments of the dyn_fn call of step: the population as perform_action
\* left it, the stored parameters and the time; the parameters the dynamics
\* then uses are those resolved for that time.
dyn_call(dyn, harvested, t) ==
  [pop |-> harvested, t |-> dyn_time(t),
   params |-> resolve_params(dyn, dyn_time(t))]

\* ------------------------------------------------------------------ state
VARIABLES
  md,         \* self.metadata, fixed at construction
  env_dyn_obj, \* self.env_dyn_obj: stored parameters and their overrides
  rng,        \* position of np.random's global generator
  timestep,   \* self.timestep
  pop,        \* self.pop
  state,      \* self.state
  last,       \* the most recent call: its arguments, intermediates and results
  steps,      \* step calls that returned since the most recent reset
  penalties,  \* steps since the most recent reset whose reward took the penalty
  ended       \* a step since the most recent reset returned terminated=True

vars ==
  <<md, env_dyn_obj, rng, timestep, pop, state, last, steps, penalties, ended>>

\* The record of a call, with the fields a reset or a step fills in; repeated
\* says that a reset directly follows a reset with the same seed, after_end
\* that it directly follows a step that returned terminated=True,
\* ended_before that a step follows, with no reset in between, a step that
\* returned terminated=True.
NoCall ==
  [op |-> "none", seed |-> 0, repeated |-> FALSE, after_end |-> FALSE,
   action |-> << >>, pop_before |-> << >>, state_before |-> << >>,
   t_before |-> 0, effort |-> << >>, harvested |-> << >>, dyn_out |-> << >>,
   raw_state |-> << >>, reward |-> 0, terminated |-> FALSE,
   truncated |-> FALSE, warned |-> FALSE, ret_state |-> << >>,
   info |-> << >>, dyn_call |-> << >>, ended_before |-> FALSE]

\* ------------------------------------------------------------- operations
\* The calls that run the body of eco_env.reset.
is_reset(op) == op \in {"init", "reset", "ray_reset"}

\* The body of eco_env.reset, called as op ("init" from the constructor).
DoReset(op, seed) ==
  LET r  == reset_rng(rng, seed)
      p  == reset_pop(md, r)
      st == pop_to_state(md, p)
  IN  /\ timestep' = 0
      /\ rng' = rng_advance(r, md.n_sp)
      /\ pop' = p
      /\ state' = st
      /\ steps' = 0
      /\ penalties' = 0
      /\ ended' = FALSE
      /\ last' = [NoCall EXCEPT !.op = op, !.seed = seed,
                                !.repeated = is_reset(last.op) /\ last.seed = seed,
                                !.after_end = last.op = "step" /\ last.terminated,
                                !.pop_before = pop, !.state_before = state,
                                !.t_before = timestep, !.ret_state = st]
      /\ UNCHANGED <<md, env_dyn_obj>>

\* eco_env.__init__: the metadata is stored and reset() is called with its
\* default seed.
Init ==
  /\ md \in Metadata
  /\ env_dyn_obj \in DynConfigs(md)
  /\ \E r0 \in RngStates :
       LET p == reset_pop(md, reset_rng(r0, 42))
       IN  /\ rng = rng_advance(r0, md.n_sp)
           /\ pop = p
           /\ state = pop_to_state(md, p)
           /\ last = [NoCall EXCEPT !.op = "init", !.seed = 42,
                                    !.ret_state = pop_to_state(md, p)]
  /\ timestep = 0
  /\ steps = 0
  /\ penalties = 0
  /\ ended = FALSE

\* eco_env.reset(seed=seed).
Reset(seed) == DoReset("reset", seed)

\* ray_eco_env.reset(seed=seed): return self.env.reset().
RayReset(seed) == DoReset("ray_reset", seed)

\* What a step that returns computes, in the order of the code.
step_result(action, out) ==
  LET clipped    == clip_action(action, md.n_act)
      effort     == action_to_effort(clipped)
      harvested  == perform_action(md, pop, effort)
      call       == dyn_call(env_dyn_obj, harvested, timestep)
      dyn        == out
      terminated == early_end(md, dyn, timestep)
      reward     == step_reward(md, effort, pop, timestep, terminated)
      raw        == pop_to_state(md, dyn)
      capped     == cap_state(raw)
  IN  [effort |-> effort, harvested |-> harvested, dyn_call |-> call,
       dyn_out |-> dyn,
       terminated |-> terminated, reward |-> reward, raw_state |-> raw,
       warned |-> state_warns(raw), state |-> capped,
       pop |-> resync_pop(md, capped, dyn)]

\* Whether step(action) raises: in np.clip (shapes that do not broadcast) or in
\* perform_action (a controlled species without an effort).
step_raises(action) ==
  \/ ~ broadcastable(Len(action), md.n_act)
  \/ ~ perform_action_ok(md, action_to_effort(clip_action(action, md.n_act)))

\* eco_env.step(action) that returns; out is what dyn_fn returns for the
\* harvested population.  ray_eco_env.step delegates to it.
Step(action, out) ==
  /\ timestep <= MaxT
  /\ ~ step_raises(action)
  /\ \E r \in {step_result(action, out)} :
         /\ pop' = r.pop
         /\ state' = r.state
         /\ timestep' = next_timestep(timestep)
         /\ steps' = steps + 1
         /\ penalties' = IF r.reward # utility_fn(r.effort, pop)
                         THEN penalties + 1 ELSE penalties
         /\ ended' = (ended \/ r.terminated)
         /\ last' = [NoCall EXCEPT !.op = "step",
                                   !.ended_before = ended,
                                   !.action = action,
                                   !.pop_before = pop, !.state_before = state,
                                   !.t_before = timestep,
                                   !.effort = r.effort,
                                   !.harvested = r.harvested,
                                   !.dyn_call = r.dyn_call,
                                   !.dyn_out = r.dyn_out,
                                   !.raw_state = r.raw_state,
                                   !.reward = r.reward,
                                   !.terminated = r.terminated,
                                   !.warned = r.warned,
                                   !.ret_state = r.state]
  /\ UNCHANGED <<md, env_dyn_obj, rng>>

\* eco_env.step(action) that raises: nothing has been assigned yet.
StepError(action) ==
  /\ step_raises(action)
  /\ last' = [NoCall EXCEPT !.op = "step_error",
                            !.action = action,
                            !.pop_before = pop, !.state_before = state,
                            !.t_before = timestep]
  /\ UNCHANGED <<md, env_dyn_obj, rng, timestep, pop, state, steps, penalties,
                 ended>>

Next ==
  \/ \E seed \in Seeds : Reset(seed)
  \/ \E seed \in Seeds : RayReset(seed)
  \/ \E action \in Actions, out \in DynOutputs(md) : Step(action, out)
  \/ \E action \in Actions : StepError(action)

Spec == Init /\ [][Next]_vars

\* ================================================================= claims
is_step == last.op = "step"

InRange(v, lo, hi) == \A i \in 1 .. Len(v) : lo <= v[i] /\ v[i] <= hi

\* C1 (bounds invariant).  After any step that returns, every component of the
\* stored population lies in [0, var_bound] and every component of the stored
\* state, which is the state the step returned, lies in [-1, 1].
C1_BoundsInvariant ==
  is_step =>
    /\ Len(pop) = md.n_sp /\ Len(state) = md.n_sp
    /\ InRange(pop, 0, md.var_bound)
    /\ InRange(state, -ONE, ONE)
    /\ last.ret_state = state

\* A step from an out-of-bound population left by reset, whose dynamics output
\* is negative in one component and above var_bound in another.
C1_Witness ==
  /\ is_step
  /\ \E i \in 1 .. md.n_sp : last.pop_before[i] < 0
  /\ \E i \in 1 .. md.n_sp : last.dyn_out[i] < 0
  /\ \E i \in 1 .. md.n_sp : last.dyn_out[i] > md.var_bound

\* C2 (state/population consistency).  After the constructor, every reset and
\* every step, the stored state is pop_to_state of the stored population and
\* the stored population is state_to_pop of the stored state, also when the
\* state was clamped.
C2_Consistency ==
  /\ \A i \in 1 .. md.n_sp :
       state[i] * md.var_bound = 2 * pop[i] * ONE - ONE * md.var_bound
  /\ state = pop_to_state(md, pop)
  /\ pop = state_to_pop(md, state)

\* A step whose recomputed state was clamped.
C2_Witness == is_step /\ last.raw_state # state

\* C3 (termination condition).  A step returns terminated=True exactly when
\* some component of the post-dynamics population is below extinct_thresh or
\* the timestep before its increment is >= tmax.
C3_Termination ==
  is_step =>
    (last.terminated <=>
       \/ \E i \in 1 .. md.n_sp : last.dyn_out[i] < md.extinct_thresh
       \/ last.t_before >= md.tmax)

\* A step at the horizon with no species below the threshold.
C3_Witness ==
  /\ is_step /\ last.terminated
  /\ last.t_before >= md.tmax
  /\ \A i \in 1 .. md.n_sp : last.dyn_out[i] >= md.extinct_thresh

\* The 'if and only if' needs its other direction seen too: a step before the
\* horizon that ends by extinction.
C3_WitnessExtinct == is_step /\ last.terminated /\ last.t_before < md.tmax

\* The effort the code derives from an action component: the component
\* clamped to [-1, 1], then (a + 1) / 2.
EffortOf(a) == (clip1(a, -ONE, ONE) + ONE) \div 2

\* The reward claimed for the last step: the utility of the pre-harvest
\* population, plus the penalty at the pre-increment timestep when the step
\* returned terminated=True.
ClaimedReward ==
  utility_fn(last.effort, last.pop_before)
    + (IF last.terminated THEN penalty_fn(last.t_before) ELSE 0)

\* C4 as stated (reward and one-time penalty).  The reward of a step is the
\* utility of the pre-harvest population plus the penalty exactly on the steps
\* that return terminated=True, and the penalty is applied at most once
\* between two resets.
C4_Original ==
  /\ is_step => last.reward = ClaimedReward
  /\ penalties <= 1

\* C4 as amended.  The reward of a step is the utility on the pre-harvest
\* population of the effort derived from the action, plus penalty_fn of the
\* pre-increment timestep on exactly the steps that return terminated=True;
\* a caller that keeps stepping without a reset is penalised on each of them.
C4_RewardPenalty ==
  is_step =>
    /\ \A k \in 1 .. Len(last.effort) :
         last.effort[k] =
           EffortOf(last.action[IF Len(last.action) = 1 THEN 1 ELSE k])
    /\ last.reward = ClaimedReward
    /\ (last.reward # utility_fn(last.effort, last.pop_before)
          <=> last.terminated)

\* A second penalised step without a reset in between, with a harvest that
\* changed the population the utility is evaluated on.
C4_Witness ==
  /\ is_step /\ last.terminated /\ penalties = 2
  /\ last.harvested # last.pop_before

\* C5 as stated (harvest application).  Species i under control gets
\* pop[i] - pop[i] * effort[i], the effort being taken at the species' own
\* index, every other species keeps its value, and the result is clamped to
\* [0, var_bound].
C5_Original ==
  is_step =>
    \A i \in 1 .. md.n_sp :
      IF is_ctrl(md, i)
      THEN /\ i <= Len(last.effort)
           /\ last.harvested[i] * ONE =
                clip1(last.pop_before[i] * ONE
                        - last.pop_before[i] * last.effort[i],
                      0, md.var_bound * ONE)
      ELSE last.harvested[i] = clip1(last.pop_before[i], 0, md.var_bound)

\* C5 as amended.  The k-th controlled species i = ctrl_species[k] gets
\* pop[i] - pop[i] * effort[k], the effort at its position in ctrl_species,
\* every other species keeps its value, and the result is clamped to
\* [0, var_bound]; population [0.5, 0.5, 0.1] under effort [0.5, 0.2] on the
\* first two species becomes [0.25, 0.4, 0.1].
C5_Harvest ==
  is_step =>
    /\ \A k \in 1 .. md.n_act :
         LET i == md.ctrl_species[k]
         IN  last.harvested[i] * ONE =
               clip1(last.pop_before[i] * ONE
                       - last.pop_before[i] * last.effort[k],
                     0, md.var_bound * ONE)
    /\ \A i \in 1 .. md.n_sp :
         ~ is_ctrl(md, i) =>
           last.harvested[i] = clip1(last.pop_before[i], 0, md.var_bound)
    /\ ( /\ md.ctrl_species = <<1, 2>>
         /\ last.pop_before = <<50, 50, 10>>
         /\ last.effort = <<50, 20>> )
       => last.harvested = <<25, 40, 10>>

\* A harvest of the last two of three species with two different efforts.
C5_Witness ==
  /\ is_step
  /\ md.ctrl_species = <<2, 3>>
  /\ last.effort = <<50, 20>>
  /\ last.harvested[1] = last.pop_before[1]
  /\ last.harvested[2] < last.pop_before[2]
  /\ last.harvested[3] < last.pop_before[3]

\* The example of the claim: [0.5, 0.5, 0.1] under [0.5, 0.2].
C5_Example ==
  /\ is_step
  /\ last.pop_before = <<50, 50, 10>>
  /\ last.effort = <<50, 20>>
  /\ last.harvested = <<25, 40, 10>>

\* C6 (timestep counter).  timestep is a non-negative integer equal to the
\* number of step calls that returned since the most recent reset; every
\* reset leaves it at 0.
C6_TimestepCounter ==
  /\ timestep \in Nat
  /\ timestep = steps
  /\ is_reset(last.op) => timestep = 0
  /\ is_step => timestep = last.t_before + 1

\* A reset issued right after a step that returned terminated=True.
C6_Witness ==
  /\ last.op = "reset" /\ last.after_end
  /\ last.t_before > 0 /\ timestep = 0

\* C7 (reset determinism).  A reset that directly follows a reset with the
\* same seed (through eco_env.reset, ray_eco_env.reset or the constructor's
\* reset) produces the population and the state that one produced.
C7_ResetDeterminism ==
  (is_reset(last.op) /\ last.repeated) =>
    /\ pop = last.pop_before
    /\ state = last.state_before

\* The calls of step whose action has a length other than n_act.
wrong_length ==
  /\ last.op \in {"step", "step_error"}
  /\ Len(last.action) # md.n_act

unchanged_by_last ==
  /\ pop = last.pop_before
  /\ state = last.state_before
  /\ timestep = last.t_before

\* C8 as stated (action shape errors).  Every step whose action has a length
\* other than n_act fails and leaves population, state and timestep
\* unchanged.
C8_Original == wrong_length => (last.op = "step_error" /\ unchanged_by_last)

\* C8 as amended.  A step whose action has a length other than n_act fails,
\* leaving population, state and timestep unchanged, when neither length is
\* 1, and whenever the action is empty; an action of length 1 with
\* n_act >= 2 is accepted and its one component is used for every control;
\* with n_act = 1 a longer action is accepted and the harvest uses its first
\* component.
C8_ShapeErrors ==
  /\ (wrong_length /\ Len(last.action) # 1 /\ md.n_act # 1)
       => (last.op = "step_error" /\ unchanged_by_last)
  /\ (wrong_length /\ Len(last.action) = 0)
       => (last.op = "step_error" /\ unchanged_by_last)
  /\ last.op = "step_error" => (wrong_length /\ unchanged_by_last)
  /\ (wrong_length /\ Len(last.action) = 1)
       => /\ last.op = "step"
          /\ last.effort = [k \in 1 .. md.n_act |-> EffortOf(last.action[1])]
  /\ (wrong_length /\ Len(last.action) > 1 /\ md.n_act = 1)
       => /\ last.op = "step"
          /\ Len(last.effort) = Len(last.action)
          /\ last.harvested[md.ctrl_species[1]] * ONE =
               clip1(last.pop_before[md.ctrl_species[1]]
                       * (ONE - EffortOf(last.action[1])),
                     0, md.var_bound * ONE)

\* A step with three action components for two controls, which fails.
C8_Witness ==
  /\ last.op = "step_error"
  /\ Len(last.action) = 3 /\ md.n_act = 2

\* A step with one action component for two controls, which returns.
C8_Broadcast ==
  /\ last.op = "step"
  /\ Len(last.action) = 1 /\ md.n_act = 2
  /\ timestep = last.t_before + 1

\* C9 (reset output range).  The state returned and stored by a reset, the
\* constructor's included, has n_sp components, each in [-1, 1], and info is
\* empty.
C9_ResetRange ==
  is_reset(last.op) =>
    /\ last.ret_state = state
    /\ Len(state) = md.n_sp
    /\ InRange(state, -ONE, ONE)
    /\ last.info = << >>

\* C10 as stated (bounds warning).  A step warns exactly when some component
\* of the recomputed state is > 1 or < -1; the step returns and the state is
\* clamped to [-1, 1].
C10_Original ==
  is_step =>
    /\ last.warned <=>
         \E i \in 1 .. md.n_sp :
           last.raw_state[i] > ONE \/ last.raw_state[i] < -ONE
    /\ \A i \in 1 .. md.n_sp : state[i] = clip1(last.raw_state[i], -ONE, ONE)

\* C10 as amended.  A step warns exactly when some component of the
\* recomputed state is > 1; a component < -1 raises no warning.  With or
\* without the warning the step returns and the state is clamped to [-1, 1].
C10_BoundsWarning ==
  /\ is_step =>
       /\ last.warned <=> \E i \in 1 .. md.n_sp : last.raw_state[i] > ONE
       /\ \A i \in 1 .. md.n_sp :
            /\ last.raw_state[i] * md.var_bound =
                 2 * last.dyn_out[i] * ONE - ONE * md.var_bound
            /\ state[i] = clip1(last.raw_state[i], -ONE, ONE)
  /\ last.op = "step_error" => ~ last.warned

\* A step whose recomputed state has a component below -1 and none above 1:
\* clamped without a warning.
C10_Witness ==
  /\ is_step /\ ~ last.warned
  /\ \E i \in 1 .. md.n_sp : last.raw_state[i] < -ONE
  /\ InRange(state, -ONE, ONE)

\* A step that warned.
C10_Warned == is_step /\ last.warned

\* The harvested population the claims expect the dynamics to be called on:
\* the k-th controlled species reduced by its effort, clamped to
\* [0, var_bound].
ExpectedHarvest(i) ==
  IF is_ctrl(md, i)
  THEN LET k == CHOOSE j \in 1 .. md.n_act : md.ctrl_species[j] = i
       IN  clip1(last.pop_before[i] * ONE
                   - last.pop_before[i] * last.effort[k],
                 0, md.var_bound * ONE)
  ELSE clip1(last.pop_before[i], 0, md.var_bound) * ONE

\* The call of the dynamics made by the last step, as C11 describes it.
C11_DynCall ==
  /\ env_dyn_obj \in DynConfigs(md)
  /\ is_step =>
       /\ last.dyn_call.t = steps - 1
       /\ last.dyn_call.t = last.t_before
       /\ \A i \in 1 .. md.n_sp :
            last.dyn_call.pop[i] * ONE = ExpectedHarvest(i)
       /\ DOMAIN last.dyn_call.params = DOMAIN env_dyn_obj.dyn_params
       /\ \A name \in DOMAIN env_dyn_obj.dyn_params :
            last.dyn_call.params[name] =
              IF /\ env_dyn_obj.non_stationary
                 /\ name \in DOMAIN env_dyn_obj.non_stationarities
              THEN ParamOne + ((steps - 1) * ParamOne) \div 1000
              ELSE env_dyn_obj.dyn_params[name]
  /\ resolve_params(DynEnv3, 0).r = ParamOne
  /\ resolve_params(DynEnv3, 500).r = ParamOne + ParamOne \div 2

\* C11 (time-indexed dynamics).  The k-th step after a reset (k = 0, 1, ...)
\* calls the dynamics on the post-harvest clamped population with t = k, the
\* timestep before its increment, and with the parameters resolved for that
\* t: an overridden parameter of a non-stationary system takes its function's
\* value at t (r(t) = 1 + t/1000: 1 at t = 0, 1.5 at t = 500), every other
\* parameter its constant.  No reset and no step changes the stored
\* parameters or their overrides.
C11_TimeIndexedDynamics ==
  /\ []C11_DynCall
  /\ [][env_dyn_obj' = env_dyn_obj]_vars

\* The second step after a reset of a non-stationary system: the dynamics is
\* called at t = 1, where the overridden parameter is 1.001 and not its
\* stored constant, on a population the harvest has changed.
C11_Witness ==
  /\ is_step
  /\ env_dyn_obj.non_stationary
  /\ last.dyn_call.t = 1
  /\ \E name \in DOMAIN env_dyn_obj.non_stationarities :
       /\ last.dyn_call.params[name] = ParamOne + 1
       /\ last.dyn_call.params[name] # env_dyn_obj.dyn_params[name]
  /\ last.dyn_call.pop # last.pop_before

\* Some step(action) returns from the current state.
StepReturns == \E action \in Actions, out \in DynOutputs(md) : Step(action, out)

\* C12 as stated (bounded episode length).  Without a reset, a step returning
\* terminated=True occurs no later than the step taken at timestep = tmax,
\* step is not blocked afterwards, and every step that follows one that
\* returned terminated=True returns terminated=True too.
C12_Original ==
  /\ ~ ended => steps <= md.tmax
  /\ (ended /\ timestep <= MaxT) => ENABLED StepReturns
  /\ (is_step /\ last.ended_before) => last.terminated

\* C12 as amended.  Without a reset, a step returning terminated=True occurs
\* no later than the step taken at timestep = tmax, step is not blocked
\* afterwards, and every further step taken at timestep >= tmax returns
\* terminated=True.  A further step taken before the horizon, after an
\* extinction ended the episode early, returns terminated=False whenever no
\* component of its own post-dynamics population is below extinct_thresh.
C12_BoundedEpisode ==
  /\ ~ ended => steps <= md.tmax
  /\ (ended /\ timestep <= MaxT) => ENABLED StepReturns
  /\ (is_step /\ last.t_before >= md.tmax) => (last.terminated /\ ended)
  /\ (is_step /\ last.ended_before) =>
       (last.terminated <=>
          \/ last.t_before >= md.tmax
          \/ \E i \in 1 .. md.n_sp : last.dyn_out[i] < md.extinct_thresh)

\* A step that follows an early extinction and returns terminated=False.
C12_Witness ==
  /\ is_step /\ last.ended_before /\ ~ last.terminated
  /\ last.t_before < md.tmax

\* A step past the horizon, after the step at the horizon ended the episode.
C12_PastHorizon ==
  /\ is_step /\ last.ended_before /\ last.terminated
  /\ last.t_before > md.tmax

====
